---- MODULE Spec2Model ----
(***************************************************************************)
(* A model of the patchable crates: the Patchable trait with its two       *)
(* blanket impls (patchable-core) and the derive macro that generates a    *)
(* patch struct and a field-wise impl for a struct (patchable-macros).     *)
(***************************************************************************)
EXTENDS Integers, Sequences, FiniteSets, TLC

(***************************************************************************)
(* Bounds of the model.                                                    *)
(***************************************************************************)
\* longest Vec<P> patch that is enumerated
MaxLen == 2
\* number of successive apply_patch calls on one target
MaxCalls == 2

\* the values of the primitive field types that are enumerated
I32Vals == {30, 31}
StringVals == {"Alice", "Bob"}

(***************************************************************************)
(* Option<T> values and type expressions.                                  *)
(***************************************************************************)
None == [some |-> FALSE]
Some(v) == [some |-> TRUE, val |-> v]

\* a type written as a bare identifier, Option<t>, Vec<t>
TI(n) == [k |-> "Ident", name |-> n]
TOption(t) == [k |-> "Option", of |-> t]
TVec(t) == [k |-> "Vec", of |-> t]

(***************************************************************************)
(* Attributes, as the token shapes syn's parse_meta distinguishes.         *)
(* form: "Bare" #[p], "Eq" #[p = lit], "Paren" #[p(args)].                 *)
(* An argument is an identifier (k = "Ident"), a path of several segments  *)
(* (k = "ModPath"), a literal (k = "Lit") or a generic type such as        *)
(* Vec<BarPatch> (k = "Vec" / "Option"), which is no meta item.            *)
(***************************************************************************)
Attr(p, f, a) == [path |-> p, form |-> f, args |-> a]
PatchAttr(arg) == Attr("patch", "Paren", <<arg>>)
DocAttr == Attr("doc", "Eq", <<[k |-> "Lit"]>>)
ModPath(a, b) == [k |-> "ModPath", segs |-> <<a, b>>]

\* attr.parse_meta(): Err when an argument is not a meta item
ParseMeta(attr) ==
    CASE attr.form = "Bare" -> [ok |-> TRUE, kind |-> "Path", nested |-> <<>>]
      [] attr.form = "Eq" -> [ok |-> TRUE, kind |-> "NameValue", nested |-> <<>>]
      [] attr.form = "Paren" ->
           IF \A i \in 1..Len(attr.args) : attr.args[i].k \in {"Ident", "ModPath", "Lit"}
           THEN [ok |-> TRUE, kind |-> "List", nested |-> attr.args]
           ELSE [ok |-> FALSE, kind |-> "Err", nested |-> <<>>]

\* path.get_ident(): only a path of one segment, without arguments
GetIdent(item) == IF item.k = "Ident" THEN Some(item.name) ELSE None

parse_attr_ident(attr) ==
    LET m == ParseMeta(attr)
    IN  IF m.ok /\ m.kind = "List" /\ attr.path = "patch"
        THEN IF Len(m.nested) > 0 /\ m.nested[1].k \in {"Ident", "ModPath"}
             THEN GetIdent(m.nested[1])
             ELSE None
        ELSE None

RECURSIVE parse_attrs_ident(_)
parse_attrs_ident(attrs) ==
    IF attrs = <<>> THEN None
    ELSE LET r == parse_attr_ident(Head(attrs))
         IN  IF r.some THEN r ELSE parse_attrs_ident(Tail(attrs))

(***************************************************************************)
(* The derive macro.  Its input is a DeriveInput                           *)
(*   [ident, attrs, data, fields_kind, fields : Seq([ident, ty, attrs])]   *)
(* and its output the patch struct and the impl, or a panic                *)
(* (unimplemented!()) for anything but a struct with named fields.         *)
(***************************************************************************)
format_ident(name) == name \o "Patch"

PatchName(input) ==
    LET n == parse_attrs_ident(input.attrs)
    IN  IF n.some THEN n.val ELSE format_ident(input.ident)

FieldPatchType(field) ==
    LET id == parse_attrs_ident(field.attrs)
    IN  IF id.some THEN TI(id.val) ELSE TOption(field.ty)

derive(input) ==
    IF input.data = "Struct" /\ input.fields_kind = "Named"
    THEN [panic |-> FALSE,
          input_name |-> input.ident,
          patch_name |-> PatchName(input),
          names |-> [i \in 1..Len(input.fields) |-> input.fields[i].ident],
          types |-> [i \in 1..Len(input.fields) |-> input.fields[i].ty],
          patch_types |-> [i \in 1..Len(input.fields) |-> FieldPatchType(input.fields[i])]]
    ELSE [panic |-> TRUE, input_name |-> input.ident, patch_name |-> PatchName(input),
          names |-> <<>>, types |-> <<>>, patch_types |-> <<>>]

(***************************************************************************)
(* The structs of the program under study: the derive inputs.              *)
(***************************************************************************)
Field(n, t, a) == [ident |-> n, ty |-> t, attrs |-> a]
Struct(n, a, fs) ==
    [ident |-> n, attrs |-> a, data |-> "Struct", fields_kind |-> "Named", fields |-> fs]

PersonDef ==
    Struct("Person", <<>>,
           <<Field("name", TI("String"), <<>>), Field("age", TI("i32"), <<>>)>>)
BarDef ==
    Struct("Bar", <<DocAttr>>,
           <<Field("foobar", TI("i32"), <<>>), Field("baz", TI("i32"), <<DocAttr>>)>>)
MyStructDef ==
    Struct("MyStruct", <<PatchAttr(TI("MyPatch"))>>,
           <<Field("foo", TI("String"), <<>>),
             Field("bar", TI("Bar"), <<PatchAttr(TI("BarPatch"))>>)>>)
\* type Ints = Vec<Option<i32>>;
JobDef ==
    Struct("Job", <<>>,
           <<Field("n", TI("i32"), <<DocAttr, PatchAttr(TI("Ints"))>>),
             Field("note", TI("String"), <<>>)>>)

StructDefs == {PersonDef, BarDef, MyStructDef, JobDef}
Aliases == [Ints |-> TVec(TOption(TI("i32")))]

IsAlias(t) == t.k = "Ident" /\ t.name \in DOMAIN Aliases
ResolveAlias(t) == IF IsAlias(t) THEN Aliases[t.name] ELSE t
IsStruct(t) == t.k = "Ident" /\ \E d \in StructDefs : d.ident = t.name
StructOf(t) == CHOOSE d \in StructDefs : d.ident = t.name
IsPatchStruct(t) == t.k = "Ident" /\ \E d \in StructDefs : derive(d).patch_name = t.name
\* the struct whose derive generated the patch struct t
OwnerOf(t) == CHOOSE d \in StructDefs : derive(d).patch_name = t.name

\* T: Patchable<P>, by the Option impl, the Vec impl or a generated impl
RECURSIVE PatchableBy(_, _)
PatchableBy(T, P) ==
    CASE P.k = "Option" -> P.of = T
      [] P.k = "Vec" -> PatchableBy(T, P.of)
      [] P.k = "Ident" ->
           IF IsAlias(P) THEN PatchableBy(T, Aliases[P.name])
           ELSE IsStruct(T) /\ IsPatchStruct(P) /\ OwnerOf(P).ident = T.name
      [] OTHER -> FALSE

(***************************************************************************)
(* The values of a type: of a primitive, of a struct (a record over the    *)
(* fields), of a generated patch struct (a record over names with the      *)
(* patch_types), of Option<t> and of Vec<t> (up to MaxLen elements).       *)
(***************************************************************************)
RECURSIVE Values(_), Records(_, _, _), SeqsUpTo(_, _)

Records(names, types, i) ==
    IF i = 1 THEN {names[1] :> v : v \in Values(types[1])}
    ELSE {(names[i] :> v) @@ r : v \in Values(types[i]), r \in Records(names, types, i - 1)}

SeqsUpTo(S, n) ==
    IF n = 0 THEN {<<>>}
    ELSE LET shorter == SeqsUpTo(S, n - 1)
         IN  shorter \cup {Append(q, e) : q \in {q \in shorter : Len(q) = n - 1}, e \in S}

Values(ty) ==
    CASE ty.k = "Option" -> {None} \cup {Some(v) : v \in Values(ty.of)}
      [] ty.k = "Vec" -> SeqsUpTo(Values(ty.of), MaxLen)
      [] ty.k = "Ident" /\ ty.name = "i32" -> I32Vals
      [] ty.k = "Ident" /\ ty.name = "String" -> StringVals
      [] IsAlias(ty) -> Values(Aliases[ty.name])
      [] IsStruct(ty) ->
           LET d == derive(StructOf(ty)) IN Records(d.names, d.types, Len(d.names))
      [] IsPatchStruct(ty) ->
           LET d == derive(OwnerOf(ty)) IN Records(d.names, d.patch_types, Len(d.names))

(***************************************************************************)
(* Patchable::apply_patch.  The impl is selected by the patch type:        *)
(* Option<T> for T, Vec<P> for T: Patchable<P>, and the derived impl of a  *)
(* generated patch struct for its struct.                                  *)
(***************************************************************************)
\* T::default(), for the variants below that reset a value
Default(T) == CHOOSE v \in Values(T) : TRUE

\* variant: *self = patch.unwrap_or_default()
OptionApplyOrDefault(T, self, patch) == IF patch.some THEN patch.val ELSE Default(T)

\* variant: the inner value is assigned to a copy, the target is left alone
OptionApplyToCopy(T, self, patch) == self

\* impl<T> Patchable<Option<T>> for T
OptionApply(T, self, patch) == IF patch.some THEN patch.val ELSE self

RECURSIVE ApplyPatch(_, _, _, _), VecApply(_, _, _, _), StructApplyOrder(_, _, _, _)
RECURSIVE VecApplyRev(_, _, _, _), VecApplySkipFirst(_, _, _, _)

\* the field, of the same type as the i-th, that follows it (the i-th itself
\* when no other field has its type)
Neighbour(d, i) ==
    LET same == {j \in 1..Len(d.names) : j # i /\ d.types[j] = d.types[i]
                                          /\ d.patch_types[j] = d.patch_types[i]}
    IN  IF same = {} THEN i ELSE CHOOSE j \in same : TRUE

\* variant: the statement of field i reads the target of another field
FieldStepNeighbour(d, self, patch, i) ==
    [self EXCEPT ![d.names[i]] =
        ApplyPatch(d.types[i], d.patch_types[i], self[d.names[Neighbour(d, i)]],
                   patch[d.names[i]])]

\* variant: a nested field is reset before its patch is applied
FieldStepReset(d, self, patch, i) ==
    [self EXCEPT ![d.names[i]] =
        ApplyPatch(d.types[i], d.patch_types[i],
                   IF IsPatchStruct(d.patch_types[i]) THEN Default(d.types[i])
                   ELSE self[d.names[i]],
                   patch[d.names[i]])]

\* self.#names.apply_patch(patch.#names) for the i-th field
FieldStep(d, self, patch, i) ==
    [self EXCEPT ![d.names[i]] =
        ApplyPatch(d.types[i], d.patch_types[i], self[d.names[i]], patch[d.names[i]])]

\* the field statements run in the order `order`
StructApplyOrder(d, self, patch, order) ==
    IF order = <<>> THEN self
    ELSE StructApplyOrder(d, FieldStep(d, self, patch, Head(order)), patch, Tail(order))

\* variant: the last field's statement is not generated
StructApplyDropLast(T, self, patch) ==
    LET d == derive(StructOf(T))
    IN  StructApplyOrder(d, self, patch, [i \in 1..(Len(d.names) - 1) |-> i])

\* variant: every statement reads the target as it was before the call, of
\* the neighbouring field
StructApplyCrossed(T, self, patch) ==
    LET d == derive(StructOf(T))
        idx(n) == CHOOSE i \in 1..Len(d.names) : d.names[i] = n
    IN  [n \in DOMAIN self |->
            ApplyPatch(d.types[idx(n)], d.patch_types[idx(n)],
                       self[d.names[Neighbour(d, idx(n))]], patch[n])]

\* the generated impl Patchable<#patch_name> for #input_name
StructApply(T, self, patch) ==
    LET d == derive(StructOf(T))
    IN  StructApplyOrder(d, self, patch, [i \in 1..Len(d.names) |-> i])

\* variant: the patches are taken from the back
VecApplyRev(T, P, self, patches) ==
    IF patches = <<>> THEN self
    ELSE VecApplyRev(T, P, ApplyPatch(T, P, self, patches[Len(patches)]),
                     SubSeq(patches, 1, Len(patches) - 1))

\* variant: the loop starts at the second patch
VecApplySkipFirst(T, P, self, patches) ==
    IF Len(patches) <= 1 THEN self
    ELSE VecApplySkipFirst(T, P, ApplyPatch(T, P, self, patches[2]),
                           <<patches[1]>> \o SubSeq(patches, 3, Len(patches)))

\* impl<T, P> Patchable<Vec<P>> for T where T: Patchable<P>
VecApply(T, P, self, patches) ==
    IF patches = <<>> THEN self
    ELSE VecApply(T, P, ApplyPatch(T, P, self, Head(patches)), Tail(patches))

\* the impl that the patch type P selects for a target of type T
ApplyPatch(T, P, self, patch) ==
    LET p == ResolveAlias(P)
    IN  CASE p.k = "Option" -> OptionApply(T, self, patch)
          [] p.k = "Vec" -> VecApply(T, p.of, self, patch)
          [] p.k = "Ident" -> StructApply(T, self, patch)

(***************************************************************************)
(* The calls that are explored: the target types, and for each the patch   *)
(* types P with T: Patchable<P>.                                           *)
(***************************************************************************)
TargetTypes ==
    {TI("i32"), TOption(TI("i32")), TI("Person"), TI("Bar"), TI("MyStruct"), TI("Job")}

\* the patch types that are no sequence
DirectPatchTypes(ty) ==
    {TOption(ty)} \cup
    (IF IsStruct(ty) THEN {TI(derive(StructOf(ty)).patch_name)} ELSE {})

\* a generated patch struct all of whose fields have the default patch type
IsFlat(t) ==
    /\ IsPatchStruct(t)
    /\ LET d == derive(OwnerOf(t))
       IN  \A i \in 1..Len(d.names) : d.patch_types[i] = TOption(d.types[i])

PatchTypes(ty) ==
    DirectPatchTypes(ty) \cup
    (CASE ty = TI("i32") -> {TVec(TOption(ty)), TVec(TVec(TOption(ty)))}
       [] ty = TOption(TI("i32")) -> {TVec(TOption(ty))}
       [] ty = TI("Person") -> {TVec(TI(derive(StructOf(ty)).patch_name))}
       [] OTHER -> {})

(***************************************************************************)
(* Specification Spec: a target and the apply_patch calls made on it.      *)
(*   ty, target : the target's type and its current value                  *)
(*   pre        : the target before the last call                          *)
(*   calls      : the number of calls made                                 *)
(*   orig       : the target at the start                                  *)
(*   pty0       : the patch type of the first call                         *)
(*   log        : the calls made so far, each [pty, patch]: the patch type *)
(*                and the patch                                            *)
(*   stack      : the apply_patch calls in progress (used by SpecStep)     *)
(*   input      : the item a derive is invoked on (used by SpecDerive)     *)
(*   output     : what the derive has generated for it                     *)
(***************************************************************************)
VARIABLES ty, target, pre, calls, orig, pty0, log, stack, input, output

vars == <<ty, target, pre, calls, orig, pty0, log, stack, input, output>>

\* no derive has run
NoOutput == [done |-> FALSE]

\* the patch type and the patch of the last call
pty == log[Len(log)].pty
patch == log[Len(log)].patch

Init ==
    /\ ty \in TargetTypes
    /\ target \in Values(ty)
    /\ pre = target
    /\ calls = 0
    /\ orig = target
    /\ pty0 \in PatchTypes(ty)
    /\ log = <<>>
    /\ stack = <<>>
    /\ input = PersonDef
    /\ output = NoOutput

\* The patches of type q a call may take: the first call any patch of type
\* pty0, a later call the last patch again or, where the patch type is a
\* struct of default fields, any other patch of it.
Callable(q) ==
    IF calls = 0 THEN (IF q = pty0 THEN Values(q) ELSE {})
    ELSE IF q # pty THEN {}
    ELSE IF IsFlat(q) THEN Values(q) ELSE {patch}

Call(q, p) ==
    /\ calls < MaxCalls
    /\ target' = ApplyPatch(ty, q, target, p)
    /\ pre' = target
    /\ calls' = calls + 1
    /\ log' = Append(log, [pty |-> q, patch |-> p])
    /\ UNCHANGED <<ty, orig, pty0, stack, input, output>>

ApplyOption ==
    \E q \in {t \in PatchTypes(ty) : t.k = "Option"} : \E p \in Callable(q) : Call(q, p)

ApplyVec ==
    \E q \in {t \in PatchTypes(ty) : t.k = "Vec"} : \E p \in Callable(q) : Call(q, p)

ApplyStruct ==
    \E q \in {t \in PatchTypes(ty) : t.k = "Ident"} : \E p \in Callable(q) : Call(q, p)

Next == ApplyOption \/ ApplyVec \/ ApplyStruct

Spec == Init /\ [][Next]_vars

(***************************************************************************)
(* Specification SpecStep: apply_patch run statement by statement.  stack  *)
(* holds the calls in progress, the innermost last; a frame is             *)
(*   [T, P : the types of self and patch, path : the place of self in the  *)
(*    target, patch : the patch, i : the next element or field to take].   *)
(***************************************************************************)
RECURSIVE Get(_, _), Put(_, _, _)
\* the place `path` of value v, and v with x put there
Get(v, path) == IF path = <<>> THEN v ELSE Get(v[Head(path)], Tail(path))
Put(v, path, x) ==
    IF path = <<>> THEN x
    ELSE [v EXCEPT ![Head(path)] = Put(v[Head(path)], Tail(path), x)]

Frame(T, P, path, p) == [T |-> T, P |-> ResolveAlias(P), path |-> path, patch |-> p, i |-> 1]

Top == stack[Len(stack)]
Pop == SubSeq(stack, 1, Len(stack) - 1)
Running == stack # <<>>

\* the patch types the statement-wise runs take
StepPatchTypes(T) == {q \in PatchTypes(T) : q.k = "Vec" => q.of.k # "Vec"}

\* a caller calls target.apply_patch(p); each run follows one call
BeginCall ==
    /\ ~Running
    /\ calls = 0
    /\ \E q \in StepPatchTypes(ty) : \E p \in Callable(q) :
          /\ stack' = <<Frame(ty, q, <<>>, p)>>
          /\ pre' = target
          /\ calls' = calls + 1
          /\ log' = Append(log, [pty |-> q, patch |-> p])
    /\ UNCHANGED <<ty, target, orig, pty0, input, output>>

\* the body of the Option impl, and its return
OptionBody ==
    /\ Running /\ Top.P.k = "Option"
    /\ target' = Put(target, Top.path, OptionApply(Top.T, Get(target, Top.path), Top.patch))
    /\ stack' = Pop
    /\ UNCHANGED <<ty, pre, calls, orig, pty0, log, input, output>>

\* variant: the loop does not move on to the next patch
VecAdvanceStuck(f) == f

\* for patch in patches: the loop moves on
VecAdvance(f) == [f EXCEPT !.i = f.i + 1]

\* one iteration of the Vec impl's loop: self.apply_patch(patch) is called
VecIterate ==
    /\ Running /\ Top.P.k = "Vec" /\ Top.i <= Len(Top.patch)
    /\ stack' = Append(Append(Pop, VecAdvance(Top)),
                       Frame(Top.T, Top.P.of, Top.path, Top.patch[Top.i]))
    /\ UNCHANGED <<ty, target, pre, calls, orig, pty0, log, input, output>>

\* the Vec impl's loop is over: return
VecReturn ==
    /\ Running /\ Top.P.k = "Vec" /\ Top.i > Len(Top.patch)
    /\ stack' = Pop
    /\ UNCHANGED <<ty, target, pre, calls, orig, pty0, log, input, output>>

\* the next statement of the generated impl:
\* self.#names.apply_patch(patch.#names) is called
StructStatement ==
    /\ Running /\ Top.P.k = "Ident"
    /\ LET d == derive(StructOf(Top.T))
           n == d.names[Top.i]
       IN  /\ Top.i <= Len(d.names)
           /\ stack' = Append(Append(Pop, [Top EXCEPT !.i = Top.i + 1]),
                              Frame(d.types[Top.i], d.patch_types[Top.i],
                                    Append(Top.path, n), Top.patch[n]))
    /\ UNCHANGED <<ty, target, pre, calls, orig, pty0, log, input, output>>

\* the generated impl has run its last statement: return
StructReturn ==
    /\ Running /\ Top.P.k = "Ident"
    /\ Top.i > Len(derive(StructOf(Top.T)).names)
    /\ stack' = Pop
    /\ UNCHANGED <<ty, target, pre, calls, orig, pty0, log, input, output>>

\* the steps of a call in progress
Step == OptionBody \/ VecIterate \/ VecReturn \/ StructStatement \/ StructReturn

NextStep == BeginCall \/ Step

\* a call in progress keeps running: it has no suspension point
SpecStep == Init /\ [][NextStep]_vars /\ WF_vars(Step)

(***************************************************************************)
(* Specification SpecDerive: #[derive(Patchable)] expanded on an item.     *)
(* The items are drawn from the attribute lists, field types and item      *)
(* kinds below.                                                            *)
(***************************************************************************)
\* the attribute lists an item or a field carries
AttrLists ==
    {<<>>,
     <<DocAttr>>,
     <<PatchAttr(TI("BarPatch"))>>,
     <<DocAttr, PatchAttr(TI("BarPatch"))>>,
     <<PatchAttr(TI("BarPatch")), PatchAttr(TI("Ints"))>>,
     <<PatchAttr(TI("Ints"))>>,
     <<PatchAttr(ModPath("other", "BarPatch"))>>,
     <<PatchAttr(TVec(TI("BarPatch")))>>,
     <<PatchAttr(TOption(TI("Bar")))>>,
     <<Attr("patch", "Bare", <<>>)>>,
     <<Attr("patch", "Paren", <<>>)>>,
     <<Attr("patch", "Paren", <<[k |-> "Lit"]>>)>>,
     <<Attr("serde", "Paren", <<TI("BarPatch")>>)>>}

FieldTypes == {TI("Bar"), TI("i32")}

\* the named fields of an item: a, or a and b
FieldLists ==
    {<<Field("a", t, at)>> : t \in FieldTypes, at \in AttrLists} \cup
    {<<Field("a", TI("Bar"), at), Field("b", t, bt)>> :
        at \in AttrLists, t \in FieldTypes, bt \in {<<>>, <<PatchAttr(TI("Ints"))>>}}

\* struct S { .. }, struct S(..), struct S, enum S, union S
DeriveInputs ==
    {[ident |-> "S", attrs |-> at, data |-> "Struct", fields_kind |-> "Named", fields |-> fs] :
        at \in AttrLists, fs \in FieldLists} \cup
    {[ident |-> "S", attrs |-> at, data |-> dk[1], fields_kind |-> dk[2], fields |-> <<>>] :
        at \in AttrLists,
        dk \in {<<"Struct", "Unnamed">>, <<"Struct", "Unit">>,
                <<"Enum", "None">>, <<"Union", "Named">>}}

InitDerive ==
    /\ ty = TI("i32")
    /\ target = 30
    /\ pre = target
    /\ calls = 0
    /\ orig = target
    /\ pty0 = TOption(ty)
    /\ log = <<>>
    /\ stack = <<>>
    /\ input \in DeriveInputs
    /\ output = NoOutput

\* the macro runs on the item
Derive ==
    /\ ~output.done
    /\ output' = [done |-> TRUE] @@ derive(input)
    /\ UNCHANGED <<ty, target, pre, calls, orig, pty0, log, stack, input>>

NextDerive == Derive

SpecDerive == InitDerive /\ [][NextDerive]_vars

(***************************************************************************)
(* Properties of Spec.                                                     *)
(***************************************************************************)
Called == calls >= 1
OptionCall == Called /\ pty.k = "Option"
VecCall == Called /\ pty.k = "Vec"
StructCall == Called /\ pty.k = "Ident"

\* the derive output of the target's struct, for a struct call
D == derive(StructOf(ty))
Fields == 1..Len(D.names)
IsDefault(d, i) == d.patch_types[i].k = "Option"
IsNested(d, i) == IsPatchStruct(d.patch_types[i])

\* C1: applying an absent optional-replacement patch (None) to a target of
\* any type leaves the target, with all its nested state, as it was.
C1_AbsentIsIdentity ==
    (OptionCall /\ ~patch.some) => target = pre

C1_Witness ==
    /\ OptionCall /\ ~patch.some
    /\ ty = TI("MyStruct")
    /\ target = [foo |-> "Bob", bar |-> [foobar |-> 31, baz |-> 30]]
    /\ target # Default(ty)

\* C2: applying a present optional-replacement patch Some(v2) leaves the
\* target equal to v2 whatever it held before; for a record target every
\* field is that of v2.
C2_PresentOverwrites ==
    (OptionCall /\ patch.some) =>
        /\ target = patch.val
        /\ IsStruct(ty) => \A i \in Fields : target[D.names[i]] = patch.val[D.names[i]]

C2_Witness ==
    /\ OptionCall /\ patch.some
    /\ ty = TI("MyStruct")
    /\ \A i \in Fields : pre[D.names[i]] # patch.val[D.names[i]]
    /\ target = patch.val

\* the patches ps[1..i] applied to t one call at a time, each to the state
\* the one before it left
RECURSIVE OneAtATime(_, _, _)
OneAtATime(t, ps, i) ==
    IF i = 0 THEN t ELSE ApplyPatch(ty, pty.of, OneAtATime(t, ps, i - 1), ps[i])

\* C3: a sequence patch is a left-to-right fold over the same target: the
\* result is that of applying p_1, then p_2, ... one at a time; for two
\* present optional-replacement patches the last one wins.
C3_SequenceFold ==
    VecCall =>
        /\ target = OneAtATime(pre, patch, Len(patch))
        /\ (pty.of.k = "Option" /\ Len(patch) = 2 /\ patch[1].some /\ patch[2].some)
              => target = patch[2].val

C3_Witness ==
    /\ VecCall /\ pty.of.k = "Option" /\ Len(patch) = 2
    /\ patch[1].some /\ patch[2].some /\ patch[1].val # patch[2].val
    /\ pre = patch[2].val /\ target = patch[2].val

\* C4: the empty sequence leaves the target as it was, and the sequence [p]
\* leaves it as applying p directly does, for p of any shape.
C4_SequenceIdentity ==
    VecCall =>
        /\ patch = <<>> => target = pre
        /\ Len(patch) = 1 => target = ApplyPatch(ty, pty.of, pre, patch[1])

C4_Witness ==
    /\ VecCall /\ Len(patch) = 1
    /\ pty.of.k = "Vec" /\ Len(patch[1]) = 2
    /\ target # pre

\* the value of field n after the calls log[1..k], all of them record
\* patches: the most recent present value, or the original one
RECURSIVE MostRecent(_, _)
MostRecent(n, k) ==
    IF k = 0 THEN orig[n]
    ELSE IF log[k].patch[n].some THEN log[k].patch[n].val ELSE MostRecent(n, k - 1)

\* C5: a record patch applies the patch field of each name to the target
\* field of that name: a default-shaped field ends as the patch's value if
\* present and as its old value if absent; after record patches applied one
\* after another each such field holds its most recent present value.
C5_RecordRule ==
    (StructCall) =>
        /\ DOMAIN target = DOMAIN pre
        /\ \A i \in Fields : IsDefault(D, i) =>
              target[D.names[i]] = IF patch[D.names[i]].some
                                   THEN patch[D.names[i]].val
                                   ELSE pre[D.names[i]]
        /\ (\A k \in 1..calls : log[k].pty = pty) =>
              \A i \in Fields : IsDefault(D, i) =>
                 target[D.names[i]] = MostRecent(D.names[i], calls)

C5_Witness ==
    /\ StructCall /\ ty = TI("Person") /\ calls = 2
    /\ orig = [name |-> "Alice", age |-> 30]
    /\ log[1].patch = [name |-> None, age |-> Some(31)]
    /\ log[2].patch = [name |-> Some("Bob"), age |-> None]
    /\ target = [name |-> "Bob", age |-> 31]

\* C6: with a nested-shape field a and an absent optional-replacement field
\* b, only the sub-fields of a that the nested patch marks present change:
\* b and the absent sub-fields of a keep their values.
C6_NestedKeepsSiblings ==
    StructCall =>
        \A i \in Fields :
            /\ (IsDefault(D, i) /\ ~patch[D.names[i]].some)
                  => target[D.names[i]] = pre[D.names[i]]
            /\ IsNested(D, i) =>
                  LET sub == derive(OwnerOf(D.patch_types[i]))
                      a == D.names[i]
                  IN  \A j \in 1..Len(sub.names) : IsDefault(sub, j) =>
                         target[a][sub.names[j]] =
                            IF patch[a][sub.names[j]].some
                            THEN patch[a][sub.names[j]].val
                            ELSE pre[a][sub.names[j]]

C6_Witness ==
    /\ StructCall /\ ty = TI("MyStruct")
    /\ pre = [foo |-> "Bob", bar |-> [foobar |-> 30, baz |-> 31]]
    /\ patch = [foo |-> None, bar |-> [foobar |-> Some(31), baz |-> None]]
    /\ target = [foo |-> "Bob", bar |-> [foobar |-> 31, baz |-> 31]]

\* the orders in which the fields can be taken
Orders == {o \in [Fields -> Fields] : \A i, j \in Fields : o[i] = o[j] => i = j}

\* C9: the generated impl takes the fields in declaration order, and taking
\* them in any other order gives the same target.
C9_FieldOrderUnobservable ==
    StructCall => \A o \in Orders : StructApplyOrder(D, pre, patch, o) = target

C9_Witness ==
    /\ StructCall /\ ty = TI("Job")
    /\ Len(patch.n) = 2
    /\ target.n # pre.n /\ target.note # pre.note
    /\ Cardinality(Orders) >= 2

\* C10: applying a patch a second time changes nothing, and the sequence
\* [p, p] leaves the target as [p] does.
C10_Idempotent ==
    /\ (calls >= 2 /\ log[calls] = log[calls - 1]) => target = pre
    /\ (VecCall /\ Len(patch) = 2 /\ patch[1] = patch[2])
          => target = ApplyPatch(ty, pty, pre, <<patch[1]>>)

C10_Witness ==
    /\ calls >= 2 /\ log[calls] = log[calls - 1]
    /\ pty.k = "Vec" /\ Len(patch) = 2 /\ patch[1] # patch[2]
    /\ orig # target

(***************************************************************************)
(* Properties of SpecStep.                                                 *)
(***************************************************************************)
\* C7: every call completes: a call in progress always has a next step, it
\* returns, and when it has returned the whole patch has been applied, all
\* the fields of every record patch in it.
C7_Totality ==
    /\ [](Running => ENABLED Step)
    /\ Running ~> ~Running
    /\ [](~Running /\ Called => target = ApplyPatch(ty, pty, pre, patch))

C7_Witness ==
    /\ ~Running /\ Called /\ ty = TI("Job")
    /\ pty = TI("JobPatch") /\ Len(patch.n) = 2 /\ patch.note.some
    /\ target.n # pre.n /\ target.note # pre.note

(***************************************************************************)
(* Properties of SpecDerive.                                               *)
(***************************************************************************)
\* an attribute #[patch(P)] with P a type
IsPatchDecl(attr) ==
    /\ attr.path = "patch" /\ attr.form = "Paren" /\ Len(attr.args) = 1
    /\ attr.args[1].k \in {"Ident", "ModPath", "Vec", "Option"}

\* the type the first #[patch(P)] of an attribute list declares
RECURSIVE Declared(_)
Declared(attrs) ==
    IF attrs = <<>> THEN None
    ELSE IF IsPatchDecl(Head(attrs)) THEN Some(Head(attrs).args[1])
    ELSE Declared(Tail(attrs))

Generated == output.done /\ ~output.panic

\* C8: for every named field the derive selects one patch type: without a
\* patch attribute Option<FieldType>, and with #[patch(P)], for every P the
\* field type is patchable by (a sequence Vec<..> included), P; the item's
\* #[patch(Name)] names the patch struct, which is otherwise called the
\* item's name followed by "Patch".
C8_ShapeSelection ==
    Generated =>
        /\ Len(output.patch_types) = Len(input.fields)
        /\ \A i \in 1..Len(input.fields) :
              LET f == input.fields[i]
                  decl == Declared(f.attrs)
              IN  /\ ~decl.some => output.patch_types[i] = TOption(f.ty)
                  /\ (decl.some /\ PatchableBy(f.ty, decl.val))
                        => output.patch_types[i] = decl.val
        /\ LET name == Declared(input.attrs)
           IN  output.patch_name =
                  IF name.some /\ name.val.k = "Ident" THEN name.val.name
                  ELSE input.ident \o "Patch"

C8_Witness ==
    /\ Generated
    /\ input.attrs = <<PatchAttr(TI("BarPatch"))>>
    /\ Len(input.fields) = 2
    /\ input.fields[1].attrs = <<PatchAttr(TVec(TI("BarPatch")))>>
    /\ PatchableBy(input.fields[1].ty, TVec(TI("BarPatch")))
    /\ output.patch_types[1] = TOption(TI("Bar"))
    /\ output.patch_name = "BarPatch"

====
